---- MODULE Spec2Model ----
(***************************************************************************)
(* Model of the post-receive git hook controller of gitness                *)
(* (app/api/controller/githook/post_receive.go).                           *)
(*                                                                         *)
(* One behaviour is one call of Controller.PostReceive.  The initial state *)
(* fixes the arguments of the call; the actions are the statements of the  *)
(* function in program order.  The collaborators the controller calls      *)
(* (access check, event reporter, pull request store) are the environment: *)
(* the model records every call made to them and draws their result from   *)
(* the outcomes they can have.                                             *)
(*                                                                         *)
(* Go strings are TLA+ strings; a Go pointer is a sequence of length zero  *)
(* (nil) or one (the value pointed to).                                    *)
(***************************************************************************)
EXTENDS Integers, Sequences, FiniteSets, TLC

\* ------------------------------------------------------------------------
\* Bounds of the model
\* ------------------------------------------------------------------------

\* longest list of reference updates of one push
MaxUpdates == 2

\* longest list of pull requests returned by the pull request store
MaxPRs == 2

\* most objects of a hashed repository
MaxObjects == 3

\* width of a digest in bits
HashBits == 2

\* ------------------------------------------------------------------------
\* Program constants
\* ------------------------------------------------------------------------

gitReferenceNamePrefixBranch == "refs/heads/"

gitReferenceNamePrefixTag == "refs/tags/"

\* types.NilSHA: the all-zero SHA that stands for "does not exist"
NilSHA == "0000000000000000000000000000000000000000"

\* ------------------------------------------------------------------------
\* Inputs of the call
\* ------------------------------------------------------------------------

RepoIDs == {1, 2}

PrincipalIDs == {1, 5}

\* the branch references of the model
BranchRefs == {"refs/heads/feature"}

\* the tag references of the model
TagRefs == {"refs/tags/v1.0"}

\* a reference that is neither, and is shorter than both prefixes
OtherRefs == {"refs/meta"}

Refs == BranchRefs \cup TagRefs \cup OtherRefs

SHAs == {NilSHA, "abc123", "def456"}

\* githook.ReferenceUpdate
ReferenceUpdates == [Ref : Refs, Old : SHAs, New : SHAs]

SeqsUpTo(S, n) == UNION {[1..k -> S] : k \in 0..n}

\* *githook.PostReceiveInput: nil or a pointer to an input
PostReceiveInputs ==
    {<<>>} \cup {<<[RefUpdates |-> us]>> : us \in SeqsUpTo(ReferenceUpdates, MaxUpdates)}

\* the repositories known to the repository store
Repos == {[ID |-> id, Path |-> "space/repo" \o ToString(id), DefaultBranch |-> "main"] :
            id \in RepoIDs}

\* the open pull requests the store can know for a branch
PullReqs == {[Number |-> 42, Title |-> "Add X"],
             [Number |-> 7, Title |-> "Fix Y"],
             [Number |-> 100, Title |-> ""]}

IsInjective(s) == \A a, b \in DOMAIN s : s[a] = s[b] => a = b

\* the results of pullreqStore.List: an error, or pull requests in the
\* order of the store
ListResults ==
    {[err |-> TRUE, prs |-> <<>>]} \cup
    {[err |-> FALSE, prs |-> ps] : ps \in {s \in SeqsUpTo(PullReqs, MaxPRs) : IsInjective(s)}}

\* ------------------------------------------------------------------------
\* State
\* ------------------------------------------------------------------------

VARIABLES
    pc,           \* position in PostReceive
    repoID,       \* argument repoID
    principalID,  \* argument principalID
    in,           \* argument in (nil or pointer)
    repo,         \* local repo (nil or pointer), set by getRepoCheckAccess
    idx,          \* position of the range loop of reportReferenceEvents
    accessChecks, \* calls made to getRepoCheckAccess
    events,       \* calls made to gitReporter, in order
    dispatchErrs, \* number of reporter calls that failed (logged by the reporter)
    lookups,      \* calls made to pullreqStore.List, in order
    listResult,   \* locals prs, err of handlePRMessaging (nil before the call)
    warnings,     \* number of warnings logged by handlePRMessaging
    out,          \* local out (nil or pointer)
    retOut,       \* returned *githook.Output (nil or pointer)
    retErr,       \* returned error ("" is nil)
    objects,      \* HashRepository: the digests of the repository's objects
    pending,      \* HashRepository: the objects not yet aggregated
    partial,      \* HashRepository: the partial hash of each worker
    merged,       \* HashRepository: the workers whose partial hash is merged
    hash          \* HashRepository: the hash of the response

\* the state of a PostReceive call
hookVars == <<pc, repoID, principalID, in, repo, idx, accessChecks, events,
              dispatchErrs, lookups, listResult, warnings, out, retOut, retErr>>

\* the state of a HashRepository call
hashVars == <<objects, pending, partial, merged, hash>>

vars == <<hookVars, hashVars>>

\* the workers of a HashRepository call
HashWorkers == {1, 2}

\* no HashRepository call is running
HashIdle ==
    /\ objects = <<>>
    /\ pending = {}
    /\ partial = [w \in HashWorkers |-> 0]
    /\ merged = {}
    /\ hash = 0

\* ------------------------------------------------------------------------
\* Pure helpers
\* ------------------------------------------------------------------------

\* strings.HasPrefix
HasPrefix(s, prefix) ==
    /\ Len(s) >= Len(prefix)
    /\ SubSeq(s, 1, Len(prefix)) = prefix

\* in.RefUpdates[0].Ref[len(gitReferenceNamePrefixBranch):]
BranchName(ref) == SubSeq(ref, Len(gitReferenceNamePrefixBranch) + 1, Len(ref))

\* reportBranchEvent with the deletion case tested before the creation case
reportBranchEvent_DeletedFirst(rID, pID, branchUpdate) ==
    IF branchUpdate.New = NilSHA
    THEN [type |-> "BranchDeleted", RepoID |-> rID, PrincipalID |-> pID,
          Ref |-> branchUpdate.Ref, SHA |-> branchUpdate.Old]
    ELSE IF branchUpdate.Old = NilSHA
    THEN [type |-> "BranchCreated", RepoID |-> rID, PrincipalID |-> pID,
          Ref |-> branchUpdate.Ref, SHA |-> branchUpdate.New]
    ELSE [type |-> "BranchUpdated", RepoID |-> rID, PrincipalID |-> pID,
          Ref |-> branchUpdate.Ref, OldSHA |-> branchUpdate.Old,
          NewSHA |-> branchUpdate.New, Forced |-> FALSE]

\* the reporter call made by reportBranchEvent: method and payload
reportBranchEvent(rID, pID, branchUpdate) ==
    IF branchUpdate.Old = NilSHA
    THEN [type |-> "BranchCreated", RepoID |-> rID, PrincipalID |-> pID,
          Ref |-> branchUpdate.Ref, SHA |-> branchUpdate.New]
    ELSE IF branchUpdate.New = NilSHA
    THEN [type |-> "BranchDeleted", RepoID |-> rID, PrincipalID |-> pID,
          Ref |-> branchUpdate.Ref, SHA |-> branchUpdate.Old]
    ELSE [type |-> "BranchUpdated", RepoID |-> rID, PrincipalID |-> pID,
          Ref |-> branchUpdate.Ref, OldSHA |-> branchUpdate.Old,
          NewSHA |-> branchUpdate.New, Forced |-> FALSE]

\* reportTagEvent that reports the new SHA of a deleted tag
reportTagEvent_DeletedNewSHA(rID, pID, tagUpdate) ==
    IF tagUpdate.Old = NilSHA
    THEN [type |-> "TagCreated", RepoID |-> rID, PrincipalID |-> pID,
          Ref |-> tagUpdate.Ref, SHA |-> tagUpdate.New]
    ELSE IF tagUpdate.New = NilSHA
    THEN [type |-> "TagDeleted", RepoID |-> rID, PrincipalID |-> pID,
          Ref |-> tagUpdate.Ref, SHA |-> tagUpdate.New]
    ELSE [type |-> "TagUpdated", RepoID |-> rID, PrincipalID |-> pID,
          Ref |-> tagUpdate.Ref, OldSHA |-> tagUpdate.Old,
          NewSHA |-> tagUpdate.New, Forced |-> TRUE]

\* reportTagEvent that takes a tag update for forced only when the SHA
\* changes
reportTagEvent_ForcedBySHA(rID, pID, tagUpdate) ==
    IF tagUpdate.Old = NilSHA
    THEN [type |-> "TagCreated", RepoID |-> rID, PrincipalID |-> pID,
          Ref |-> tagUpdate.Ref, SHA |-> tagUpdate.New]
    ELSE IF tagUpdate.New = NilSHA
    THEN [type |-> "TagDeleted", RepoID |-> rID, PrincipalID |-> pID,
          Ref |-> tagUpdate.Ref, SHA |-> tagUpdate.Old]
    ELSE [type |-> "TagUpdated", RepoID |-> rID, PrincipalID |-> pID,
          Ref |-> tagUpdate.Ref, OldSHA |-> tagUpdate.Old,
          NewSHA |-> tagUpdate.New,
          Forced |-> (tagUpdate.Old # tagUpdate.New)]

\* the reporter call made by reportTagEvent: method and payload
reportTagEvent(rID, pID, tagUpdate) ==
    IF tagUpdate.Old = NilSHA
    THEN [type |-> "TagCreated", RepoID |-> rID, PrincipalID |-> pID,
          Ref |-> tagUpdate.Ref, SHA |-> tagUpdate.New]
    ELSE IF tagUpdate.New = NilSHA
    THEN [type |-> "TagDeleted", RepoID |-> rID, PrincipalID |-> pID,
          Ref |-> tagUpdate.Ref, SHA |-> tagUpdate.Old]
    ELSE [type |-> "TagUpdated", RepoID |-> rID, PrincipalID |-> pID,
          Ref |-> tagUpdate.Ref, OldSHA |-> tagUpdate.Old,
          NewSHA |-> tagUpdate.New, Forced |-> TRUE]

\* the early return without the test for a batch push: only the first
\* update is looked at
SkipPRMessaging_FirstUpdateOnly(input) ==
    \/ Len(input.RefUpdates) = 0
    \/ ~HasPrefix(input.RefUpdates[1].Ref, gitReferenceNamePrefixBranch)
    \/ input.RefUpdates[1].New = NilSHA

\* the early return without the test of the reference name
SkipPRMessaging_AnyRef(input) ==
    \/ Len(input.RefUpdates) # 1
    \/ input.RefUpdates[1].New = NilSHA

\* the early return of handlePRMessaging: a batch push, a reference that
\* is not a branch, or a branch deletion
SkipPRMessaging(input) ==
    \/ Len(input.RefUpdates) # 1
    \/ ~HasPrefix(input.RefUpdates[1].Ref, gitReferenceNamePrefixBranch)
    \/ input.RefUpdates[1].New = NilSHA

\* the filter handlePRMessaging passes to pullreqStore.List
PullReqFilter(r, branchName) ==
    [Page |-> 1, Size |-> 2, SourceRepoID |-> r.ID, SourceBranch |-> branchName,
     States |-> <<"open">>, Order |-> "asc", Sort |-> "created"]

\* urlProvider.GenerateUIPRURL
GenerateUIPRURL(repoPath, number) ==
    "http://localhost/" \o repoPath \o "/pulls/" \o ToString(number)

\* urlProvider.GenerateUICompareURL
GenerateUICompareURL(repoPath, base, head) ==
    "http://localhost/" \o repoPath \o "/pulls/compare/" \o base \o "..." \o head

\* the messages for the open pull requests with the two lines of each pull
\* request written to each other's index
OpenPRMessages_LinesSwapped(r, branchName, prs) ==
    [j \in 1..(2 * Len(prs) + 1) |->
        IF j = 1
        THEN "Branch '" \o branchName \o "' has open PRs:"
        ELSE LET i == (j - 2) \div 2
                 pr == prs[i + 1]
             IN IF j = 2 * i + 3
                THEN "  (#" \o ToString(pr.Number) \o ") " \o pr.Title
                ELSE "    " \o GenerateUIPRURL(r.Path, pr.Number)]

\* the messages for the open pull requests of the branch (prs is not empty)
OpenPRMessages(r, branchName, prs) ==
    [j \in 1..(2 * Len(prs) + 1) |->
        IF j = 1
        THEN "Branch '" \o branchName \o "' has open PRs:"
        ELSE LET i == (j - 2) \div 2
                 pr == prs[i + 1]
             IN IF j = 2 * i + 2
                THEN "  (#" \o ToString(pr.Number) \o ") " \o pr.Title
                ELSE "    " \o GenerateUIPRURL(r.Path, pr.Number)]

\* the messages for a branch without open pull request, comparing from the
\* pushed branch to the default branch
NewPRMessages_CompareReversed(r, branchName) ==
    << "Create a new PR for branch '" \o branchName \o "'",
       "  " \o GenerateUICompareURL(r.Path, branchName, r.DefaultBranch) >>

\* the messages for a branch without open pull request
NewPRMessages(r, branchName) ==
    << "Create a new PR for branch '" \o branchName \o "'",
       "  " \o GenerateUICompareURL(r.Path, r.DefaultBranch, branchName) >>

\* ------------------------------------------------------------------------
\* Initial state: the arguments of the call
\* ------------------------------------------------------------------------

Init ==
    /\ pc = "start"
    /\ repoID \in RepoIDs
    /\ principalID \in PrincipalIDs
    /\ in \in PostReceiveInputs
    /\ repo = <<>>
    /\ idx = 0
    /\ accessChecks = <<>>
    /\ events = <<>>
    /\ dispatchErrs = 0
    /\ lookups = <<>>
    /\ listResult = <<>>
    /\ warnings = 0
    /\ out = <<>>
    /\ retOut = <<>>
    /\ retErr = ""
    /\ HashIdle

\* ------------------------------------------------------------------------
\* PostReceive, statement by statement
\* ------------------------------------------------------------------------

\* PostReceive without the nil check of its input
CheckInput_NoNilCheck ==
    /\ pc = "start"
    /\ UNCHANGED hashVars
    /\ pc' = "access"
    /\ UNCHANGED <<repoID, principalID, in, repo, idx, accessChecks, events,
                   dispatchErrs, lookups, listResult, warnings, out, retOut,
                   retErr>>

\* if in == nil { return nil, fmt.Errorf("input is nil") }
CheckInput ==
    /\ pc = "start"
    /\ UNCHANGED hashVars
    /\ IF in = <<>>
       THEN /\ pc' = "done"
            /\ retOut' = <<>>
            /\ retErr' = "input is nil"
       ELSE /\ pc' = "access"
            /\ UNCHANGED <<retOut, retErr>>
    /\ UNCHANGED <<repoID, principalID, in, repo, idx, accessChecks, events,
                   dispatchErrs, lookups, listResult, warnings, out>>

\* repo, err := c.getRepoCheckAccess(..., enum.PermissionRepoEdit)
\* if err != nil { return nil, err }
\* accessErr is the error of the access check ("" is nil)
GetRepoCheckAccess(accessErr) ==
    /\ pc = "access"
    /\ UNCHANGED hashVars
    /\ accessChecks' = Append(accessChecks,
                              [RepoID |-> repoID, Permission |-> "repo_edit"])
    /\ IF accessErr # ""
       THEN /\ pc' = "done"
            /\ retOut' = <<>>
            /\ retErr' = accessErr
            /\ UNCHANGED <<repo, idx>>
       ELSE /\ pc' = "report"
            /\ repo' = <<CHOOSE r \in Repos : r.ID = repoID>>
            /\ idx' = 1
            /\ UNCHANGED <<retOut, retErr>>
    /\ UNCHANGED <<repoID, principalID, in, events, dispatchErrs, lookups,
                   listResult, warnings, out>>

\* one call of the reporter; the reporter logs its failure and returns nothing
Dispatch(event, ok) ==
    /\ events' = Append(events, event)
    /\ dispatchErrs' = IF ok THEN dispatchErrs ELSE dispatchErrs + 1

\* one iteration of the loop whose default arm reports a tag event
ReportReferenceEvent_DefaultIsTag(ok) ==
    /\ pc = "report"
    /\ UNCHANGED hashVars
    /\ idx <= Len(in[1].RefUpdates)
    /\ LET refUpdate == in[1].RefUpdates[idx]
       IN \/ /\ HasPrefix(refUpdate.Ref, gitReferenceNamePrefixBranch)
             /\ Dispatch(reportBranchEvent(repoID, principalID, refUpdate), ok)
          \/ /\ ~HasPrefix(refUpdate.Ref, gitReferenceNamePrefixBranch)
             /\ Dispatch(reportTagEvent(repoID, principalID, refUpdate), ok)
    /\ idx' = idx + 1
    /\ UNCHANGED <<pc, repoID, principalID, in, repo, accessChecks, lookups,
                   listResult, warnings, out, retOut, retErr>>

\* one iteration of the loop of reportReferenceEvents
ReportReferenceEvent(ok) ==
    /\ pc = "report"
    /\ UNCHANGED hashVars
    /\ idx <= Len(in[1].RefUpdates)
    /\ LET refUpdate == in[1].RefUpdates[idx]
       IN \/ /\ HasPrefix(refUpdate.Ref, gitReferenceNamePrefixBranch)
             /\ Dispatch(reportBranchEvent(repoID, principalID, refUpdate), ok)
          \/ /\ ~HasPrefix(refUpdate.Ref, gitReferenceNamePrefixBranch)
             /\ HasPrefix(refUpdate.Ref, gitReferenceNamePrefixTag)
             /\ Dispatch(reportTagEvent(repoID, principalID, refUpdate), ok)
          \/ /\ ~HasPrefix(refUpdate.Ref, gitReferenceNamePrefixBranch)
             /\ ~HasPrefix(refUpdate.Ref, gitReferenceNamePrefixTag)
             /\ ok
             /\ UNCHANGED <<events, dispatchErrs>>
    /\ idx' = idx + 1
    /\ UNCHANGED <<pc, repoID, principalID, in, repo, accessChecks, lookups,
                   listResult, warnings, out, retOut, retErr>>

\* PostReceive that goes on to the output before the loop has ended
CreateOutput_BeforeLoopEnd ==
    /\ pc = "report"
    /\ UNCHANGED hashVars
    /\ out' = <<[Messages |-> <<>>]>>
    /\ pc' = "prmsg"
    /\ UNCHANGED <<repoID, principalID, in, repo, idx, accessChecks, events,
                   dispatchErrs, lookups, listResult, warnings, retOut, retErr>>

\* the loop of reportReferenceEvents ends; out := &githook.Output{}
CreateOutput ==
    /\ pc = "report"
    /\ UNCHANGED hashVars
    /\ idx > Len(in[1].RefUpdates)
    /\ out' = <<[Messages |-> <<>>]>>
    /\ pc' = "prmsg"
    /\ UNCHANGED <<repoID, principalID, in, repo, idx, accessChecks, events,
                   dispatchErrs, lookups, listResult, warnings, retOut, retErr>>

\* handlePRMessaging that makes a failed lookup fail the hook
handlePRMessaging_LookupFatal(res) ==
    /\ pc = "prmsg"
    /\ UNCHANGED hashVars
    /\ IF SkipPRMessaging(in[1])
       THEN /\ res = [err |-> TRUE, prs |-> <<>>]
            /\ pc' = "return"
            /\ UNCHANGED <<lookups, listResult, warnings, out, retOut, retErr>>
       ELSE LET branchName == BranchName(in[1].RefUpdates[1].Ref)
            IN /\ lookups' = Append(lookups, PullReqFilter(repo[1], branchName))
               /\ listResult' = <<res>>
               /\ IF res.err
                  THEN /\ warnings' = warnings + 1
                       /\ pc' = "done"
                       /\ retOut' = <<>>
                       /\ retErr' = "failed to find pullrequests"
                       /\ UNCHANGED out
                  ELSE /\ UNCHANGED <<warnings, retOut, retErr>>
                       /\ pc' = "return"
                       /\ IF Len(res.prs) > 0
                          THEN out' = <<[Messages |-> out[1].Messages \o
                                         OpenPRMessages(repo[1], branchName, res.prs)]>>
                          ELSE out' = <<[Messages |-> out[1].Messages \o
                                         NewPRMessages(repo[1], branchName)]>>
    /\ UNCHANGED <<repoID, principalID, in, repo, idx, accessChecks, events,
                   dispatchErrs>>

\* handlePRMessaging that goes on after a failed lookup
handlePRMessaging_ErrIgnored(res) ==
    /\ pc = "prmsg"
    /\ UNCHANGED hashVars
    /\ IF SkipPRMessaging(in[1])
       THEN /\ res = [err |-> TRUE, prs |-> <<>>]
            /\ UNCHANGED <<lookups, listResult, warnings, out>>
       ELSE LET branchName == BranchName(in[1].RefUpdates[1].Ref)
            IN /\ lookups' = Append(lookups, PullReqFilter(repo[1], branchName))
               /\ listResult' = <<res>>
               /\ warnings' = IF res.err THEN warnings + 1 ELSE warnings
               /\ IF Len(res.prs) > 0
                  THEN out' = <<[Messages |-> out[1].Messages \o
                                 OpenPRMessages(repo[1], branchName, res.prs)]>>
                  ELSE out' = <<[Messages |-> out[1].Messages \o
                                 NewPRMessages(repo[1], branchName)]>>
    /\ pc' = "return"
    /\ UNCHANGED <<repoID, principalID, in, repo, idx, accessChecks, events,
                   dispatchErrs, retOut, retErr>>

\* c.handlePRMessaging(ctx, repo, in, out); res is the result of the
\* pull request store if it is asked
handlePRMessaging(res) ==
    /\ pc = "prmsg"
    /\ UNCHANGED hashVars
    /\ IF SkipPRMessaging(in[1])
       THEN /\ res = [err |-> TRUE, prs |-> <<>>]
            /\ UNCHANGED <<lookups, listResult, warnings, out>>
       ELSE LET branchName == BranchName(in[1].RefUpdates[1].Ref)
            IN /\ lookups' = Append(lookups, PullReqFilter(repo[1], branchName))
               /\ listResult' = <<res>>
               /\ IF res.err
                  THEN /\ warnings' = warnings + 1
                       /\ UNCHANGED out
                  ELSE /\ UNCHANGED warnings
                       /\ IF Len(res.prs) > 0
                          THEN out' = <<[Messages |-> out[1].Messages \o
                                         OpenPRMessages(repo[1], branchName, res.prs)]>>
                          ELSE out' = <<[Messages |-> out[1].Messages \o
                                         NewPRMessages(repo[1], branchName)]>>
    /\ pc' = "return"
    /\ UNCHANGED <<repoID, principalID, in, repo, idx, accessChecks, events,
                   dispatchErrs, retOut, retErr>>

\* return out, nil
Return ==
    /\ pc = "return"
    /\ UNCHANGED hashVars
    /\ retOut' = out
    /\ retErr' = ""
    /\ pc' = "done"
    /\ UNCHANGED <<repoID, principalID, in, repo, idx, accessChecks, events,
                   dispatchErrs, lookups, listResult, warnings, out>>

\* the errors getRepoCheckAccess can return ("" is nil)
AccessErrs == {"", "not found", "not authorized"}

Next ==
    \/ CheckInput
    \/ \E accessErr \in AccessErrs : GetRepoCheckAccess(accessErr)
    \/ \E ok \in BOOLEAN : ReportReferenceEvent(ok)
    \/ CreateOutput
    \/ \E res \in ListResults : handlePRMessaging(res)
    \/ Return

Spec == Init /\ [][Next]_vars

TypeOK ==
    /\ pc \in {"start", "access", "report", "prmsg", "return", "done"}
    /\ Len(retOut) <= 1
    /\ Len(out) <= 1
    /\ Len(lookups) <= 1

\* ------------------------------------------------------------------------
\* Vocabulary of the properties
\* ------------------------------------------------------------------------

\* the class of a reference, by the set it was drawn from
IsBranchRef(ref) == ref \in BranchRefs

IsTagRef(ref) == ref \in TagRefs

IsReportedUpdate(u) == IsBranchRef(u.Ref) \/ IsTagRef(u.Ref)

\* the reference updates of the push (none for a nil input)
Updates == IF in = <<>> THEN <<>> ELSE in[1].RefUpdates

\* the updates the loop of reportReferenceEvents has gone through
Processed == IF idx = 0 THEN <<>> ELSE SubSeq(Updates, 1, idx - 1)

\* the processed updates that name a branch or a tag, in input order
Reported == SelectSeq(Processed, IsReportedUpdate)

CreatedTypes == {"BranchCreated", "TagCreated"}

DeletedTypes == {"BranchDeleted", "TagDeleted"}

UpdatedTypes == {"BranchUpdated", "TagUpdated"}

\* reportReferenceEvents has returned
ReportingDone == pc \in {"prmsg", "return", "done"} /\ repo # <<>>

\* handlePRMessaging has returned
PRMessagingDone == pc \in {"return", "done"} /\ repo # <<>>

\* the messages of the output under construction
OutMessages == IF out = <<>> THEN <<>> ELSE out[1].Messages

\* ------------------------------------------------------------------------
\* C1
\* ------------------------------------------------------------------------

\* C1 as stated: for every reported update, old = NilSHA gives a Created
\* event, new = NilSHA gives a Deleted event, and any other pair gives an
\* Updated event.
C1_AsStated ==
    /\ Len(events) = Len(Reported)
    /\ \A k \in 1..Len(events) :
         LET u == Reported[k]
             e == events[k]
         IN /\ u.Old = NilSHA => e.type \in CreatedTypes
            /\ u.New = NilSHA => e.type \in DeletedTypes
            /\ (u.Old # NilSHA /\ u.New # NilSHA) => e.type \in UpdatedTypes

\* C1 amended: the creation case has precedence.  For every reported update,
\* old = NilSHA gives a Created event (also when new = NilSHA), new = NilSHA
\* with old # NilSHA gives a Deleted event, and any other pair gives an
\* Updated event.
C1_Classification ==
    /\ Len(events) = Len(Reported)
    /\ \A k \in 1..Len(events) :
         LET u == Reported[k]
             e == events[k]
         IN /\ u.Old = NilSHA => e.type \in CreatedTypes
            /\ (u.Old # NilSHA /\ u.New = NilSHA) => e.type \in DeletedTypes
            /\ (u.Old # NilSHA /\ u.New # NilSHA) => e.type \in UpdatedTypes

\* a branch update from NilSHA to NilSHA has been reported as created,
\* after a deletion and an update were reported
C1_Witness ==
    /\ pc = "done"
    /\ Len(events) = Len(Reported)
    /\ \E k \in 1..Len(events) :
         /\ IsBranchRef(Reported[k].Ref)
         /\ Reported[k].Old = NilSHA
         /\ Reported[k].New = NilSHA
         /\ events[k].type = "BranchCreated"
    /\ \E k \in 1..Len(events) :
         /\ Reported[k].Old # NilSHA
         /\ Reported[k].New = NilSHA
         /\ events[k].type \in DeletedTypes

\* ------------------------------------------------------------------------
\* C2
\* ------------------------------------------------------------------------

\* C2 as stated: every call with a non-nil input returns an output and no
\* error, whatever sub-step fails.
C2_AsStated ==
    (pc = "done" /\ in # <<>>) => (Len(retOut) = 1 /\ retErr = "")

\* C2 amended: every call with a non-nil input whose repository access
\* check succeeds returns an output and no error, whatever event dispatch
\* or pull request lookup fails; a failed access check is returned as the
\* error of the call, without output.
C2_BestEffort ==
    /\ (pc = "done" /\ in # <<>> /\ repo # <<>>) =>
           (Len(retOut) = 1 /\ retErr = "")
    /\ (pc = "done" /\ in # <<>> /\ repo = <<>>) =>
           (retOut = <<>> /\ retErr # "" /\ retErr # "input is nil")

\* a call has returned its output although a dispatch and the lookup failed
C2_Witness ==
    /\ pc = "done"
    /\ in # <<>>
    /\ dispatchErrs > 0
    /\ warnings > 0
    /\ listResult = <<[err |-> TRUE, prs |-> <<>>]>>
    /\ Len(retOut) = 1
    /\ retErr = ""

\* ------------------------------------------------------------------------
\* C10
\* ------------------------------------------------------------------------

\* C10: a call with a nil input returns an error and no output right away,
\* and makes no access check, no event dispatch and no pull request lookup.
C10_NilInput ==
    in = <<>> =>
        /\ pc \in {"start", "done"}
        /\ accessChecks = <<>>
        /\ events = <<>>
        /\ dispatchErrs = 0
        /\ lookups = <<>>
        /\ out = <<>>
        /\ retOut = <<>>
        /\ pc = "done" => retErr = "input is nil"

\* a call with a nil input has returned
C10_Witness ==
    /\ in = <<>>
    /\ pc = "done"
    /\ retErr = "input is nil"
    /\ retOut = <<>>

\* ------------------------------------------------------------------------
\* C3
\* ------------------------------------------------------------------------

\* the positions of the branch updates of the push
BranchUpdatePositions == {k \in 1..Len(Updates) : IsBranchRef(Updates[k].Ref)}

\* the push touched exactly one branch reference, and did not delete it
TouchedOneBranch ==
    /\ Cardinality(BranchUpdatePositions) = 1
    /\ \A k \in BranchUpdatePositions : Updates[k].New # NilSHA

\* the push is one update of a branch reference that is not a deletion
SingleBranchPush ==
    /\ Len(Updates) = 1
    /\ IsBranchRef(Updates[1].Ref)
    /\ Updates[1].New # NilSHA

\* PR-messaging ran: the pull requests were looked up or a message was added
PRMessagingRan == lookups # <<>> \/ OutMessages # <<>>

\* C3 as stated: PR-messaging runs if and only if the push touched exactly
\* one branch reference with a non-deletion outcome, also when the push
\* mixes that branch update with tag or other updates.
C3_AsStated ==
    PRMessagingDone => (PRMessagingRan <=> TouchedOneBranch)

\* C3 amended: PR-messaging runs if and only if the list of reference
\* updates has exactly one entry and that entry is a branch reference whose
\* new SHA is not NilSHA; a push that mixes one branch update with tag or
\* other updates gets no PR-messaging.
C3_SingleBranchOnly ==
    /\ PRMessagingRan => SingleBranchPush
    /\ PRMessagingDone => (SingleBranchPush <=> Len(lookups) = 1)

\* a push of one branch update and one tag update has gone through
\* handlePRMessaging without a lookup
C3_Witness ==
    /\ pc = "done"
    /\ retErr = ""
    /\ Len(Updates) = 2
    /\ TouchedOneBranch
    /\ \E k \in 1..2 : IsTagRef(Updates[k].Ref)
    /\ lookups = <<>>
    /\ retOut = <<[Messages |-> <<>>]>>

\* ------------------------------------------------------------------------
\* C4
\* ------------------------------------------------------------------------

\* C4: a push of more than one update, or of one update that is not a
\* branch reference, makes no pull request lookup and returns no message.
C4_NoPRMessaging ==
    (\/ Len(Updates) > 1
     \/ (Len(Updates) = 1 /\ ~IsBranchRef(Updates[1].Ref))) =>
        /\ lookups = <<>>
        /\ listResult = <<>>
        /\ OutMessages = <<>>
        /\ retOut # <<>> => retOut[1].Messages = <<>>

\* a push of one tag creation has returned an output without message
C4_Witness ==
    /\ pc = "done"
    /\ Len(Updates) = 1
    /\ IsTagRef(Updates[1].Ref)
    /\ Updates[1].Old = NilSHA
    /\ Updates[1].New # NilSHA
    /\ lookups = <<>>
    /\ retOut = <<[Messages |-> <<>>]>>
    /\ retErr = ""

\* ------------------------------------------------------------------------
\* C5
\* ------------------------------------------------------------------------

\* the suffixes of s
Suffixes(s) == {SubSeq(s, k, Len(s)) : k \in 1..(Len(s) + 1)}

\* the name b with ref = "refs/heads/" b
NameOfBranch(ref) == CHOOSE b \in Suffixes(ref) : "refs/heads/" \o b = ref

\* the pull requests were looked up for the pushed branch of the
\* repository, once
LookedUpPushedBranch ==
    /\ Len(lookups) = 1
    /\ lookups[1].SourceRepoID = repoID
    /\ lookups[1].SourceBranch = NameOfBranch(Updates[1].Ref)
    /\ lookups[1].States = <<"open">>

\* C5: for a push of exactly one branch update from NilSHA to a real SHA,
\* when the lookup reports no open pull request, PR-messaging has run and
\* the output is the one "create new PR" block: the line naming the branch
\* and the indented compare URL from the default branch to the branch.
C5_CreateNewPR ==
    (/\ PRMessagingDone
     /\ Len(Updates) = 1
     /\ IsBranchRef(Updates[1].Ref)
     /\ Updates[1].Old = NilSHA
     /\ Updates[1].New # NilSHA) =>
        LET b == NameOfBranch(Updates[1].Ref)
            msgs == << "Create a new PR for branch '" \o b \o "'",
                       "  " \o GenerateUICompareURL(repo[1].Path,
                                                     repo[1].DefaultBranch, b) >>
        IN /\ LookedUpPushedBranch
           /\ Len(listResult) = 1
           /\ listResult = <<[err |-> FALSE, prs |-> <<>>]>> =>
                /\ OutMessages = msgs
                /\ pc = "done" => (retOut = <<[Messages |-> msgs]>> /\ retErr = "")

\* the push of a new branch feature without open pull request has returned
\* the two lines
C5_Witness ==
    /\ pc = "done"
    /\ Updates = <<[Ref |-> "refs/heads/feature", Old |-> NilSHA, New |-> "abc123"]>>
    /\ listResult = <<[err |-> FALSE, prs |-> <<>>]>>
    /\ Len(retOut) = 1
    /\ Len(retOut[1].Messages) = 2
    /\ retOut[1].Messages[1] = "Create a new PR for branch 'feature'"

\* ------------------------------------------------------------------------
\* C6
\* ------------------------------------------------------------------------

\* C6: for a single-branch push for which the lookup returns n >= 1 open
\* pull requests, the output is 2n+1 messages: the header naming the
\* branch, then for each pull request in the order of the lookup its
\* "(#number) title" line and the indented UI URL of the pull request; no
\* "create new PR" line follows.
C6_OpenPRs ==
    (/\ PRMessagingDone
     /\ SingleBranchPush
     /\ Len(listResult) = 1
     /\ ~listResult[1].err
     /\ Len(listResult[1].prs) >= 1) =>
        LET prs == listResult[1].prs
            n == Len(prs)
            b == NameOfBranch(Updates[1].Ref)
        IN /\ Len(OutMessages) = 2 * n + 1
           /\ OutMessages[1] = "Branch '" \o b \o "' has open PRs:"
           /\ \A k \in 1..n :
                /\ OutMessages[2 * k] =
                       "  (#" \o ToString(prs[k].Number) \o ") " \o prs[k].Title
                /\ OutMessages[2 * k + 1] =
                       "    " \o GenerateUIPRURL(repo[1].Path, prs[k].Number)
           /\ \A j \in 1..Len(OutMessages) :
                OutMessages[j] # "Create a new PR for branch '" \o b \o "'"
           /\ pc = "done" => (retOut = out /\ retErr = "")

\* the push of branch feature with the open pull requests #42 and #7 has
\* returned the five lines
C6_Witness ==
    /\ pc = "done"
    /\ SingleBranchPush
    /\ Len(listResult) = 1
    /\ listResult[1].prs = <<[Number |-> 42, Title |-> "Add X"],
                             [Number |-> 7, Title |-> "Fix Y"]>>
    /\ Len(retOut) = 1
    /\ Len(retOut[1].Messages) = 5
    /\ retOut[1].Messages[1] = "Branch 'feature' has open PRs:"
    /\ retOut[1].Messages[2] = "  (#42) Add X"
    /\ retOut[1].Messages[4] = "  (#7) Fix Y"

\* ------------------------------------------------------------------------
\* C7
\* ------------------------------------------------------------------------

\* the event of one update, from the update and the IDs of the call alone
EventOf(u) ==
    IF IsBranchRef(u.Ref)
    THEN reportBranchEvent(repoID, principalID, u)
    ELSE reportTagEvent(repoID, principalID, u)

\* C7: the loop of reportReferenceEvents dispatches exactly one event per
\* update whose reference starts with refs/heads/ (a branch event) or
\* refs/tags/ (a tag event), in the order of the input list, and none for
\* any other update; each event is the event of its own update, whatever
\* the other updates of the push are; when the loop has ended every update
\* has been gone through once.
C7_OneEventPerUpdate ==
    /\ Len(events) = Len(Reported)
    /\ \A k \in 1..Len(events) :
         /\ events[k] = EventOf(Reported[k])
         /\ events[k].Ref = Reported[k].Ref
         /\ IsBranchRef(Reported[k].Ref) =>
                events[k].type \in {"BranchCreated", "BranchDeleted", "BranchUpdated"}
         /\ IsTagRef(Reported[k].Ref) =>
                events[k].type \in {"TagCreated", "TagDeleted", "TagUpdated"}
    /\ ReportingDone => Processed = Updates
    /\ dispatchErrs <= Len(events)

\* a push of an ignored reference and a tag has dispatched the tag event only
C7_Witness ==
    /\ pc = "done"
    /\ Len(Updates) = 2
    /\ ~IsReportedUpdate(Updates[1])
    /\ IsTagRef(Updates[2].Ref)
    /\ Len(events) = 1
    /\ events[1].Ref = Updates[2].Ref

\* ------------------------------------------------------------------------
\* C8
\* ------------------------------------------------------------------------

\* C8: every dispatched event carries the repository ID and the principal
\* ID of the call and the reference of its update as it is; a Created event
\* carries the new SHA, a Deleted event the old SHA, an Updated event both.
\* A push that deletes one tag dispatches the one event TagDeleted with the
\* old SHA.
C8_Payloads ==
    /\ Len(events) = Len(Reported)
    /\ \A k \in 1..Len(events) :
         LET u == Reported[k]
             e == events[k]
         IN /\ e.RepoID = repoID
            /\ e.PrincipalID = principalID
            /\ e.Ref = u.Ref
            /\ e.type \in CreatedTypes => e.SHA = u.New
            /\ e.type \in DeletedTypes => e.SHA = u.Old
            /\ e.type \in UpdatedTypes => (e.OldSHA = u.Old /\ e.NewSHA = u.New)
    /\ (/\ ReportingDone
        /\ Len(Updates) = 1
        /\ IsTagRef(Updates[1].Ref)
        /\ Updates[1].Old # NilSHA
        /\ Updates[1].New = NilSHA) =>
           events = <<[type |-> "TagDeleted", RepoID |-> repoID,
                       PrincipalID |-> principalID, Ref |-> Updates[1].Ref,
                       SHA |-> Updates[1].Old]>>

\* the push that deletes the tag v1.0 has dispatched TagDeleted with the
\* old SHA
C8_Witness ==
    /\ pc = "done"
    /\ Updates = <<[Ref |-> "refs/tags/v1.0", Old |-> "abc123", New |-> NilSHA]>>
    /\ Len(events) = 1
    /\ events[1].type = "TagDeleted"
    /\ events[1].SHA = "abc123"
    /\ lookups = <<>>

\* ------------------------------------------------------------------------
\* C9
\* ------------------------------------------------------------------------

\* C9: when the pull request lookup fails, no message is added to the
\* output, the events dispatched before are all there, and the call
\* returns the output without message and without error.
C9_LookupFailure ==
    (Len(listResult) = 1 /\ listResult[1].err) =>
        /\ OutMessages = <<>>
        /\ warnings = 1
        /\ Len(events) = 1
        /\ events[1] = EventOf(Updates[1])
        /\ pc \in {"return", "done"}
        /\ pc = "done" => (retOut = <<[Messages |-> <<>>]>> /\ retErr = "")

\* a call whose lookup failed has returned the output without message
C9_Witness ==
    /\ pc = "done"
    /\ listResult = <<[err |-> TRUE, prs |-> <<>>]>>
    /\ Len(events) = 1
    /\ retOut = <<[Messages |-> <<>>]>>
    /\ retErr = ""

\* ------------------------------------------------------------------------
\* C11
\* ------------------------------------------------------------------------

\* C11: every TagUpdated event carries Forced = TRUE and every
\* BranchUpdated event carries Forced = FALSE, whatever the old and the new
\* SHA of the update are.
C11_ForcedFlag ==
    \A k \in 1..Len(events) :
        /\ events[k].type = "TagUpdated" => events[k].Forced = TRUE
        /\ events[k].type = "BranchUpdated" => events[k].Forced = FALSE

\* a tag update that keeps the SHA was reported as forced, and a branch
\* update that changes the SHA as not forced
C11_Witness ==
    /\ pc = "done"
    /\ \E k \in 1..Len(events) :
         /\ events[k].type = "TagUpdated"
         /\ events[k].OldSHA = events[k].NewSHA
         /\ events[k].Forced = TRUE
    /\ \E k \in 1..Len(events) :
         /\ events[k].type = "BranchUpdated"
         /\ events[k].OldSHA # events[k].NewSHA
         /\ events[k].Forced = FALSE

\* ------------------------------------------------------------------------
\* C13
\* ------------------------------------------------------------------------

\* the access check was made and failed
AccessFailed == accessChecks # <<>> /\ repo = <<>>

\* what the calls recorded so far say about the steps before them
C13_Positions ==
    /\ Len(accessChecks) <= 1
    /\ events # <<>> => (Len(accessChecks) = 1 /\ repo # <<>>)
    /\ lookups # <<>> => (Processed = Updates /\ Len(events) = Len(Reported))
    /\ retOut # <<>> => pc = "done"
    /\ AccessFailed =>
         /\ pc = "done"
         /\ events = <<>>
         /\ lookups = <<>>
         /\ out = <<>>
         /\ retOut = <<>>
         /\ retErr \in AccessErrs \ {""}

\* what each step leaves behind it
C13_Steps ==
    /\ pc # "done"
    /\ accessChecks' # accessChecks =>
         (events = <<>> /\ events' = <<>> /\ lookups' = <<>> /\ retOut' = <<>>)
    /\ events' # events =>
         /\ Len(accessChecks) = 1
         /\ accessChecks' = accessChecks
         /\ repo # <<>>
         /\ lookups' = <<>>
         /\ out' = <<>>
         /\ retOut' = <<>>
    /\ lookups' # lookups =>
         /\ Processed = Updates
         /\ Len(events) = Len(Reported)
         /\ events' = events
         /\ accessChecks' = accessChecks
         /\ retOut' = <<>>
    /\ retOut' # retOut =>
         /\ pc' = "done"
         /\ events' = events
         /\ lookups' = lookups
         /\ accessChecks' = accessChecks

\* C13: within one call the access check completes before any event is
\* dispatched, all events of the push are dispatched before the pull
\* request lookup starts, and the output is returned last; after a failed
\* access check there is no event, no lookup and no output.
C13_StrictOrder == []C13_Positions /\ [][C13_Steps]_vars

\* a call has made the access check, dispatched one event, looked up the
\* pull requests and returned its output
C13_Witness ==
    /\ pc = "done"
    /\ Len(accessChecks) = 1
    /\ Len(events) = 1
    /\ dispatchErrs = 0
    /\ Len(lookups) = 1
    /\ Len(retOut) = 1
    /\ retErr = ""

\* ------------------------------------------------------------------------
\* HashRepository (gitrpc/proto/repo.proto): the hash of a repository is
\* the aggregation of the digests of its objects.  The objects are
\* enumerated in any order and shared out between workers; each worker
\* aggregates the digests it receives, and the partial hashes are then
\* aggregated, in any order, into the hash of the response.
\* ------------------------------------------------------------------------

\* enum HashAggregationType
HashAggregationTypeXOR == 0

\* the digests of HashBits bits
Digests == 0..(2 ^ HashBits - 1)

\* the bitwise exclusive or of two digests
RECURSIVE BitXor(_, _)
BitXor(a, b) ==
    IF a = 0 THEN b
    ELSE IF b = 0 THEN a
    ELSE (((a % 2) + (b % 2)) % 2) + 2 * BitXor(a \div 2, b \div 2)

\* an aggregation that chains the digests: shift the hash, add the digest
Aggregate_Chained(aggregationType, a, b) == (2 * a + b) % (2 ^ HashBits)

\* the aggregation of a digest into a hash
Aggregate(aggregationType, a, b) ==
    CASE aggregationType = HashAggregationTypeXOR -> BitXor(a, b)

\* the repositories that are hashed: the digests of their objects, in the
\* order of the object store
HashInit ==
    /\ objects \in SeqsUpTo(Digests, MaxObjects)
    /\ pending = DOMAIN objects
    /\ partial = [w \in HashWorkers |-> 0]
    /\ merged = {}
    /\ hash = 0
    /\ pc = "hash"
    /\ repoID \in {1}
    /\ principalID \in {1}
    /\ in = <<>>
    /\ repo = <<>>
    /\ idx = 0
    /\ accessChecks = <<>>
    /\ events = <<>>
    /\ dispatchErrs = 0
    /\ lookups = <<>>
    /\ listResult = <<>>
    /\ warnings = 0
    /\ out = <<>>
    /\ retOut = <<>>
    /\ retErr = ""

\* worker w receives object o, whichever comes next in the enumeration
HashObject(w, o) ==
    /\ o \in pending
    /\ pending' = pending \ {o}
    /\ partial' = [partial EXCEPT
                     ![w] = Aggregate(HashAggregationTypeXOR, @, objects[o])]
    /\ UNCHANGED <<objects, merged, hash>>
    /\ UNCHANGED hookVars

\* the partial hash of worker w is aggregated into the hash
MergePartial(w) ==
    /\ pending = {}
    /\ w \notin merged
    /\ hash' = Aggregate(HashAggregationTypeXOR, hash, partial[w])
    /\ merged' = merged \cup {w}
    /\ UNCHANGED <<objects, pending, partial>>
    /\ UNCHANGED hookVars

HashNext ==
    \/ \E w \in HashWorkers : \E o \in DOMAIN objects : HashObject(w, o)
    \/ \E w \in HashWorkers : MergePartial(w)

HashSpec == HashInit /\ [][HashNext]_vars

\* ------------------------------------------------------------------------
\* C12
\* ------------------------------------------------------------------------

\* bit i of digest d
BitOf(d, i) == (d \div (2 ^ i)) % 2

\* the hash of the repository told from its objects alone: bit i is set
\* when an odd number of objects have bit i set in their digest
ParityHash ==
    LET bit(i) == Cardinality({o \in DOMAIN objects : BitOf(objects[o], i) = 1}) % 2
        sum[i \in 0..HashBits] ==
            IF i = HashBits THEN 0 ELSE bit(i) * (2 ^ i) + sum[i + 1]
    IN sum[0]

\* the hash is complete
HashDone == pending = {} /\ merged = HashWorkers

\* C12: with the XOR aggregation the hash does not depend on the order in
\* which the objects are enumerated nor on how they are grouped between
\* workers: every complete hash is the same function of the set of
\* objects, and aggregating is commutative and associative on the partial
\* hashes and digests at hand.
C12_OrderIndependent ==
    /\ HashDone => hash = ParityHash
    /\ \A v, w \in HashWorkers : \A o \in pending :
         LET a == partial[v]
             b == partial[w]
             d == objects[o]
             x == HashAggregationTypeXOR
         IN /\ Aggregate(x, a, d) = Aggregate(x, d, a)
            /\ Aggregate(x, Aggregate(x, a, b), d) =
                   Aggregate(x, a, Aggregate(x, b, d))

\* three objects with different digests have been hashed by two workers
\* that both took part
C12_Witness ==
    /\ HashDone
    /\ Len(objects) = 3
    /\ IsInjective(objects)
    /\ \A w \in HashWorkers : partial[w] # 0
    /\ hash # 0
    /\ hash = ParityHash

====
